---- MODULE Spec2Model ----
(***************************************************************************)
(* Model of src/src/options/generate/generator.py (class Generator): the   *)
(* specification refiner, the candidate generator, the build/debug loop    *)
(* and the approach selector, together with the content extractor they     *)
(* all use.                                                                *)
(*                                                                         *)
(* Texts (model responses, file contents, names) are sequences of tokens.  *)
(* A token is a tuple of strings whose first element is its class:         *)
(*   <<"nl">>                 a newline                                    *)
(*   <<"sp">>                 a blank (whitespace other than newline)      *)
(*   <<"fence">>              three backticks                              *)
(*   <<"w", c>>               a run of word characters (\w+) spelled c     *)
(*   <<"p", c>>               punctuation (neither \w nor \s) spelled c    *)
(*   <<"hdr", stem, sep, ext>> the text **<stem><sep><ext>**               *)
(* A file name is the triple <<stem, sep, ext>>; in the regular expression *)
(* built from it the separator "." is the wildcard it is in Python.        *)
(***************************************************************************)
EXTENDS Integers, Sequences, FiniteSets, TLC

\* ------------------------------------------------------------ tokens

NL == <<"nl">>
SP == <<"sp">>
FENCE == <<"fence">>
W(c) == <<"w", c>>
P(c) == <<"p", c>>
Hdr(n) == <<"hdr", n[1], n[2], n[3]>>

IsWord(t) == t[1] = "w"
IsSpace(t) == t[1] = "nl" \/ t[1] = "sp"

\* Optional[Text]: None is a text no extraction and no input can produce.
None == << <<"None">> >>

\* Python truthiness of an Optional[Text].
Truthy(t) == t # None /\ t # << >>

\* ------------------------------------------------------------ file names

EXECUTOR_FILE_NAME == <<"microservice", ".", "py">>
TEST_EXECUTOR_FILE_NAME == <<"test_microservice", ".", "py">>
REQUIREMENTS_FILE_NAME == <<"requirements", ".", "txt">>
DOCKER_FILE_NAME == <<"Dockerfile", "", "">>
CONFIG_FILE_NAME == <<"config", ".", "yml">>

\* The order of FILE_AND_TAG_PAIRS (the tags only decorate prompts).
FILE_AND_TAG_PAIRS ==
    <<EXECUTOR_FILE_NAME, TEST_EXECUTOR_FILE_NAME, REQUIREMENTS_FILE_NAME, DOCKER_FILE_NAME>>

\* str.strip(): leading and trailing whitespace removed.
RECURSIVE LStrip(_)
LStrip(t) == IF t # << >> /\ IsSpace(Head(t)) THEN LStrip(Tail(t)) ELSE t

RECURSIVE RStrip(_)
RStrip(t) ==
    IF t # << >> /\ IsSpace(t[Len(t)]) THEN RStrip(SubSeq(t, 1, Len(t) - 1)) ELSE t

Strip(t) == RStrip(LStrip(t))

\* ------------------------------------------------------------ extraction

\* ^ under re.MULTILINE: the start of the text or just after a newline.
AtLineStart(t, i) == i = 1 \/ (i > 1 /\ t[i - 1] = NL)

\* The header token h is matched by \*\*{file_name}\*\* : the file name is
\* put into the pattern unescaped, so its "." matches any one character.
HeaderMatches(h, file_name) ==
    /\ h[1] = "hdr"
    /\ h[2] = file_name[1]
    /\ h[4] = file_name[3]
    /\ IF file_name[2] = "." THEN h[3] # "" ELSE h[3] = file_name[2]

\* The least j >= from with t[j] = NL and t[j+1] = FENCE, or 0.
RECURSIVE NextNlFence(_, _)
NextNlFence(t, from) ==
    IF from + 1 > Len(t) THEN 0
    ELSE IF t[from] = NL /\ t[from + 1] = FENCE THEN from
    ELSE NextNlFence(t, from + 1)

\* The least j >= from with t[j] = FENCE, or 0.
RECURSIVE NextFence(_, _)
NextFence(t, from) ==
    IF from > Len(t) THEN 0
    ELSE IF t[from] = FENCE THEN from
    ELSE NextFence(t, from + 1)

\* (?:\w+\n)? at position p: the position after the language tag line when
\* one is there (\w+ is greedy: the whole run of word tokens), else 0.
RECURSIVE WordRunEnd(_, _)
WordRunEnd(t, p) == IF p <= Len(t) /\ IsWord(t[p]) THEN WordRunEnd(t, p + 1) ELSE p

AfterTag(t, p) ==
    LET e == WordRunEnd(t, p)
    IN  IF e > p /\ e <= Len(t) /\ t[e] = NL THEN e + 1 ELSE 0

\* ```(?:\w+\n)?([\s\S]*?)\n``` with the opening fence at p - 1: <<from, to>>
\* of group 1, or << >> when there is no match.  The optional tag is tried
\* first; the match without it is the backtracking alternative.
LabelledBody(t, p) ==
    LET a == AfterTag(t, p)
        ja == IF a = 0 THEN 0 ELSE NextNlFence(t, a)
        jb == NextNlFence(t, p)
    IN  IF ja # 0 THEN <<a, ja - 1>>
        ELSE IF jb # 0 THEN <<p, jb - 1>>
        ELSE << >>

\* re.search of the labelled pattern from position i on: group 1 of the
\* leftmost match as <<from, to>>, or << >>.
RECURSIVE SearchLabelled(_, _, _)
SearchLabelled(t, file_name, i) ==
    IF i + 2 > Len(t) THEN << >>
    ELSE IF /\ AtLineStart(t, i)
            /\ HeaderMatches(t[i], file_name)
            /\ t[i + 1] = NL
            /\ t[i + 2] = FENCE
            /\ LabelledBody(t, i + 3) # << >>
         THEN LabelledBody(t, i + 3)
         ELSE SearchLabelled(t, file_name, i + 1)

\* ^```(?:\w+\n)?([\s\S]*?)``` with the opening fence at p - 1: <<from, to,
\* end>> where end is the position after the closing fence, or << >>.
SingleBody(t, p) ==
    LET a == AfterTag(t, p)
        ja == IF a = 0 THEN 0 ELSE NextFence(t, a)
        jb == NextFence(t, p)
    IN  IF ja # 0 THEN <<a, ja - 1, ja + 1>>
        ELSE IF jb # 0 THEN <<p, jb - 1, jb + 1>>
        ELSE << >>

\* re.findall of the single-block pattern: the group-1 contents of the
\* non-overlapping matches, left to right.
RECURSIVE FindAllSingle(_, _)
FindAllSingle(t, i) ==
    IF i > Len(t) THEN << >>
    ELSE IF AtLineStart(t, i) /\ t[i] = FENCE /\ SingleBody(t, i + 1) # << >>
         THEN LET m == SingleBody(t, i + 1)
              IN  <<SubSeq(t, m[1], m[2])>> \o FindAllSingle(t, m[3])
         ELSE FindAllSingle(t, i + 1)

extract_content_from_result(plain_text, file_name, match_single_block) ==
    LET match == SearchLabelled(plain_text, file_name, 1)
        single_code_block_match == FindAllSingle(plain_text, 1)
    IN  IF match # << >> THEN Strip(SubSeq(plain_text, match[1], match[2]))
        ELSE IF match_single_block /\ Len(single_code_block_match) = 1
             THEN Strip(single_code_block_match[1])
        ELSE << >>

\* ------------------------------------------------------------ bounds

\* The value of MAX_DEBUGGING_ITERATIONS (imported at generator.py:13 from
\* src/constants.py); the model runs the loop with a small value.
MAX_DEBUGGING_ITERATIONS == 3

\* Cap on the turns of one refinement loop that do not finalize (the code
\* has no cap).
MaxRefineTurns == 2

\* ------------------------------------------------------------ constants

\* NUM_IMPLEMENTATION_STRATEGIES, PROBLEMATIC_PACKAGES, UNNECESSARY_PACKAGES
\* are imported from src/constants.py; representative values.
NUM_IMPLEMENTATION_STRATEGIES == 2
PROBLEMATIC_PACKAGES == {<<W("pyglet")>>, <<W("moderngl")>>}
UNNECESSARY_PACKAGES == {<<W("fastapi")>>, <<W("uvicorn")>>}

\* ------------------------------------------------------------ sequences helpers

Range(s) == {s[k] : k \in 1..Len(s)}

\* ------------------------------------------------------------ the file system

\* get_microservice_path(path, microservice_name, packages, num_approach,
\* version): one directory per (name, approach index, package set, version).
get_microservice_path(path, microservice_name, packages, num_approach, version) ==
    [path |-> path, name |-> microservice_name, packages |-> packages,
     num_approach |-> num_approach, version |-> version, sub |-> ""]

\* os.path.join(microservice_path, 'gateway')
GatewayPath(microservice_path) == [microservice_path EXCEPT !.sub = "gateway"]

\* A directory is a function from file names to contents.
EmptyDir == [f \in {} |-> << >>]

\* persist_file(content, os.path.join(folder, file_name)) on directory d.
PersistFile(d, file_name, content) ==
    [f \in DOMAIN d \cup {file_name} |-> IF f = file_name THEN content ELSE d[f]]

\* A file name written out as text.
FileNameText(n) == <<W(n[1]), P(n[2]), W(n[3])>>

\* write_config_yml: the text of config.yml.
ConfigYml(class_name, python_file) ==
    <<W("jtype"), P(":"), SP>> \o class_name
        \o <<NL, W("py_modules"), P(":"), NL, SP, P("-"), SP>> \o FileNameText(python_file) \o <<NL,
             W("metas"), P(":"), NL, SP, W("name"), P(":"), SP>>
        \o class_name \o <<NL>>

\* ------------------------------------------------------------ the environment

\* What the model, the human, the builder and the registry may answer.

PROMPT_FILE_NAME == <<"prompt", ".", "txt">>
TASK_FINAL_FILE_NAME == <<"task-final", ".", "txt">>
TEST_FINAL_FILE_NAME == <<"test-final", ".", "txt">>
CLIENT_RESPONSE_FILE_NAME == <<"client-response", ".", "txt">>
NAME_FILE_NAME == <<"name", ".", "txt">>
PACKAGES_FILE_NAME == <<"packages", ".", "csv">>
APP_FILE_NAME == <<"app", ".", "py">>
CUSTOM_GATEWAY_FILE_NAME == <<"custom_gateway", ".", "py">>

NoTag == << >>
PythonTag == <<W("python")>>

\* A fenced block, and a fenced block under a **file name** header.
Fenced(tag, content) == <<FENCE>> \o tag \o <<NL>> \o content \o <<NL, FENCE, NL>>
Labelled(file_name, tag, content) == <<Hdr(file_name), NL>> \o Fenced(tag, content)

Prose == <<W("Sure"), P("!"), NL>>

\* Task and test descriptions the Generator may be constructed with.
Drafts == {None, << >>, <<W("draft")>>}

\* Non-empty replies of the human (get_user_input returns no empty reply).
UserReplies == {<<W("reply")>>}

RefineResponses ==
    { Labelled(PROMPT_FILE_NAME, NoTag, <<W("question")>>),
      Labelled(TASK_FINAL_FILE_NAME, NoTag, <<W("task")>>),
      Labelled(TEST_FINAL_FILE_NAME, NoTag, <<W("test")>>),
      Labelled(PROMPT_FILE_NAME, NoTag, <<W("question")>>)
          \o Labelled(TASK_FINAL_FILE_NAME, NoTag, <<W("task")>>)
          \o Labelled(TEST_FINAL_FILE_NAME, NoTag, <<W("test")>>),
      Labelled(TASK_FINAL_FILE_NAME, NoTag, <<SP>>)
          \o Labelled(TEST_FINAL_FILE_NAME, NoTag, << >>),
      Prose }

NameResponses ==
    { Labelled(NAME_FILE_NAME, NoTag, <<W("Svc")>>),
      Prose \o Labelled(NAME_FILE_NAME, NoTag, <<W("Svc")>>) }

RandomInts == {"7"}

\* The root folder generate() is called with.
MICROSERVICE_PATH == "microservice"

VARIABLES
    pc,                          \* where generate() stands
    microservice_specification,  \* TaskSpecification: [task, test]
    refine,                      \* the locals of refine_task / refine_test
    microservice_name,
    packages_list,
    num_approach,                \* index of the approach being tried (from 0)
    gen_step,                    \* next file of generate_microservice (1..4)
    i,                           \* loop variable of debug_microservice
    error,                       \* the error of the last push
    final_version_path,          \* what debug_microservice returned
    fs,                          \* directories: path -> (file name -> content)
    log,                         \* builder and file system calls, in order
    printed,                     \* messages to the operator, in order
    exc,                         \* the exception that escaped generate()
    last_repair,                 \* inputs of the last do_debug_iteration
    conversation                 \* the last generate_and_persist_file call

vars == <<pc, microservice_specification, refine, microservice_name, packages_list,
          num_approach, gen_step, i, error, final_version_path, fs, log, printed,
          exc, last_repair, conversation>>

NoPath == get_microservice_path("", << >>, << >>, 0, 0)
NoRefine ==
    [msg |-> << >>, messages |-> << >>, asked |-> << >>, sent |-> << >>, turns |-> 0,
     response |-> << >>]
NoRepair == [done |-> FALSE]
NoConversation == [done |-> FALSE]

Init ==
    /\ pc = "refine_task_start"
    /\ microservice_specification \in [task : Drafts, test : Drafts]
    /\ refine = NoRefine
    /\ microservice_name = << >>
    /\ packages_list = << >>
    /\ num_approach = 0
    /\ gen_step = 0
    /\ i = 0
    /\ error = << >>
    /\ final_version_path = NoPath
    /\ fs = [d \in {} |-> EmptyDir]
    /\ log = << >>
    /\ printed = << >>
    /\ exc = "none"
    /\ last_repair = NoRepair
    /\ conversation = NoConversation

\* ------------------------------------------------------------ refine_specification

loopVars == <<microservice_name, packages_list, num_approach, gen_step, i, error,
              final_version_path, fs, log, exc, last_repair, conversation>>

\* refine_task, lines 365-370: the draft, or the human's answer when there
\* is none.
RefineTaskStart ==
    /\ pc = "refine_task_start"
    /\ \E reply \in UserReplies :
          refine' = [NoRefine EXCEPT
                        !.msg = IF Truthy(microservice_specification.task)
                                THEN microservice_specification.task ELSE reply,
                        !.asked = IF Truthy(microservice_specification.task)
                                  THEN << >> ELSE <<W("What should your microservice do?")>>]
    /\ pc' = "refine_task"
    /\ UNCHANGED <<microservice_specification, printed>>
    /\ UNCHANGED loopVars

\* Mutant: no raw response is put to the human; a response without a
\* question is handled as one with a question.
RefineAsk_QuestionOnly(r, sent, agent_response_raw, question, reply) ==
    [r EXCEPT !.msg = reply, !.messages = Append(@, reply), !.asked = question,
              !.sent = sent, !.turns = @ + 1, !.response = agent_response_raw]

\* One turn of a refinement loop: what the locals become when the response
\* holds no final text.  A question is put to the human and the reply is
\* appended to messages; without a question the raw response is put.
RefineAsk(r, sent, agent_response_raw, question, reply) ==
    IF question # << >>
    THEN [r EXCEPT !.msg = reply, !.messages = Append(@, reply), !.asked = question,
                   !.sent = sent, !.turns = @ + 1, !.response = agent_response_raw]
    ELSE [r EXCEPT !.msg = reply, !.asked = agent_response_raw \o <<NL, P(":"), SP>>,
                   !.sent = sent, !.turns = @ + 1, !.response = agent_response_raw]

\* Mutant: the loop stops on any response, final text or not.
Finalized_Unchecked(final_text) == TRUE

\* Lines 379 and 402: `if task_final:` / `if test_final:`.
Finalized(final_text) == final_text # << >>

\* Mutant: the question is looked at first, the final text only without one.
LoopBreaks_QuestionFirst(final_text, question) == Finalized(final_text) /\ question = << >>

\* Lines 379-385 and 402-408: the final text is looked at before the
\* question; with a final text the loop breaks.
LoopBreaks(final_text, question) == Finalized(final_text)

\* refine_task, lines 372-386: one iteration of the loop.  On the final
\* text refine_test starts (lines 389-392) with the task as user_input.
RefineTaskTurn ==
    /\ pc = "refine_task"
    /\ \E agent_response_raw \in RefineResponses, reply \in UserReplies :
          LET question == extract_content_from_result(agent_response_raw, PROMPT_FILE_NAME, FALSE)
              task_final == extract_content_from_result(agent_response_raw, TASK_FINAL_FILE_NAME, FALSE)
          IN  IF LoopBreaks(task_final, question)
              THEN /\ microservice_specification' =
                          [microservice_specification EXCEPT !.task = task_final]
                   /\ refine' = [NoRefine EXCEPT !.msg = task_final,
                                                 !.response = agent_response_raw]
                   /\ pc' = "refine_test"
              ELSE /\ refine.turns < MaxRefineTurns
                   /\ refine' = RefineAsk(refine, refine.msg, agent_response_raw, question, reply)
                   /\ UNCHANGED <<microservice_specification, pc>>
    /\ UNCHANGED printed
    /\ UNCHANGED loopVars

\* The message refine_test sends: user_input in a client-response.txt block.
ClientResponse(user_input) == Labelled(CLIENT_RESPONSE_FILE_NAME, NoTag, user_input)

\* refine_test, lines 393-409: one iteration of the loop.  On the final
\* text refine_specification prints the handover and returns.
RefineTestTurn ==
    /\ pc = "refine_test"
    /\ \E agent_response_raw \in RefineResponses, reply \in UserReplies :
          LET question == extract_content_from_result(agent_response_raw, PROMPT_FILE_NAME, FALSE)
              test_final == extract_content_from_result(agent_response_raw, TEST_FINAL_FILE_NAME, FALSE)
          IN  IF LoopBreaks(test_final, question)
              THEN /\ microservice_specification' =
                          [microservice_specification EXCEPT !.test = test_final]
                   /\ refine' = [NoRefine EXCEPT !.response = agent_response_raw]
                   /\ printed' = Append(printed, "handover")
                   /\ pc' = "name"
              ELSE /\ refine.turns < MaxRefineTurns
                   /\ refine' = RefineAsk(refine, ClientResponse(refine.msg),
                                          agent_response_raw, question, reply)
                   /\ UNCHANGED <<microservice_specification, pc, printed>>
    /\ UNCHANGED loopVars

\* ------------------------------------------------------------ generate_and_persist_file

\* Mutant: no follow-up request, whatever was extracted.
NeedsFollowUp_Never(content) == FALSE

\* Line 96: `if content == '':`.
NeedsFollowUp(content) == content = << >>

\* Lines 89-100: the content extracted from the first reply, or, when that
\* is empty, from the reply to the one follow-up request.
GeneratedContent(first_raw, second_raw, file_name) ==
    LET content == extract_content_from_result(first_raw, file_name, TRUE)
    IN  IF NeedsFollowUp(content)
        THEN extract_content_from_result(second_raw, file_name, TRUE)
        ELSE content

\* The tag of a file in FILE_AND_TAG_PAIRS.
TagOf(file_name) ==
    IF file_name \in {EXECUTOR_FILE_NAME, TEST_EXECUTOR_FILE_NAME} THEN PythonTag ELSE NoTag

\* Lines 63-68: the files of FILE_AND_TAG_PAIRS from index k on, each as a
\* labelled block followed by an empty line.
RECURSIVE FilesFrom(_, _, _)
FilesFrom(file_name_to_content, restrict_keys, k) ==
    IF k > Len(FILE_AND_TAG_PAIRS) THEN << >>
    ELSE LET file_name == FILE_AND_TAG_PAIRS[k]
         IN  (IF file_name \in DOMAIN file_name_to_content
                     /\ (restrict_keys = {} \/ file_name \in restrict_keys)
              THEN Labelled(file_name, TagOf(file_name), file_name_to_content[file_name])
                       \o <<NL>>
              ELSE << >>)
                 \o FilesFrom(file_name_to_content, restrict_keys, k + 1)

\* files_to_string; restrict_keys = {} stands for None.
files_to_string(file_name_to_content, restrict_keys) ==
    Strip(FilesFrom(file_name_to_content, restrict_keys, 1))

\* The messages generate_and_persist_file sends: the formatted template
\* (lines 89-94) and the follow-up (line 97).
TemplateQuery(file_name, code_files_wrapped) ==
    [kind |-> "template", file_name |-> file_name, code_files_wrapped |-> code_files_wrapped]
FollowUpQuery(file_name) ==
    [kind |-> "follow_up", file_name |-> file_name, code_files_wrapped |-> << >>]

\* Lines 87-103: the requests sent in the one conversation of a call, the
\* replies to them, and the content persisted and returned.
Conversation(first_raw, second_raw, file_name, code_files_wrapped, destination_folder) ==
    LET again == NeedsFollowUp(extract_content_from_result(first_raw, file_name, TRUE))
    IN  [done |-> TRUE,
         file_name |-> file_name,
         destination_folder |-> destination_folder,
         messages |-> <<TemplateQuery(file_name, code_files_wrapped)>>
                          \o (IF again THEN <<FollowUpQuery(file_name)>> ELSE << >>),
         replies |-> <<first_raw>> \o (IF again THEN <<second_raw>> ELSE << >>),
         content |-> GeneratedContent(first_raw, second_raw, file_name)]

\* ------------------------------------------------------------ name and packages

\* generate_microservice_name and line 315.
GenerateMicroserviceName ==
    /\ pc = "name"
    /\ \E name_raw \in NameResponses, r \in RandomInts :
          microservice_name' =
              extract_content_from_result(name_raw, NAME_FILE_NAME, FALSE) \o <<W(r)>>
    /\ pc' = "packages"
    /\ refine' = NoRefine
    /\ UNCHANGED <<microservice_specification, packages_list, num_approach,
                   gen_step, i, error, final_version_path, fs, log, printed, exc,
                   last_repair, conversation>>

\* str.split(sep) for a one-token separator.
RECURSIVE Split(_, _)
Split(t, sep) ==
    IF \E k \in 1..Len(t) : t[k] = sep
    THEN LET k == CHOOSE k \in 1..Len(t) : t[k] = sep /\ \A j \in 1..(k - 1) : t[j] # sep
         IN  <<SubSeq(t, 1, k - 1)>> \o Split(SubSeq(t, k + 1, Len(t)), sep)
    ELSE <<t>>

\* [pkg.strip() for pkg in packages_string.split(',')]
RECURSIVE StripAll(_)
StripAll(pieces) ==
    IF pieces = << >> THEN << >> ELSE <<Strip(Head(pieces))>> \o StripAll(Tail(pieces))

RECURSIVE ParseLines(_)
ParseLines(lines) ==
    IF lines = << >> THEN << >>
    ELSE <<StripAll(Split(Head(lines), P(",")))>> \o ParseLines(Tail(lines))

\* Line 308.
ParsePackages(packages_csv_string) == ParseLines(Split(packages_csv_string, NL))

\* packages_list[:NUM_IMPLEMENTATION_STRATEGIES], line 309.
Truncate(s, n) == SubSeq(s, 1, IF Len(s) < n THEN Len(s) ELSE n)

\* Lines 317-319: the package sets with no problematic package.
RECURSIVE WithoutProblematic(_)
WithoutProblematic(pl) ==
    IF pl = << >> THEN << >>
    ELSE IF Range(Head(pl)) \cap PROBLEMATIC_PACKAGES = {}
         THEN <<Head(pl)>> \o WithoutProblematic(Tail(pl))
         ELSE WithoutProblematic(Tail(pl))

\* Mutant: every package kept.
Necessary_All(packages) == packages

\* [package for package in packages if package not in UNNECESSARY_PACKAGES]
RECURSIVE Necessary(_)
Necessary(packages) ==
    IF packages = << >> THEN << >>
    ELSE IF Head(packages) \notin UNNECESSARY_PACKAGES
         THEN <<Head(packages)>> \o Necessary(Tail(packages))
         ELSE Necessary(Tail(packages))

\* Lines 320-322.
RECURSIVE WithoutUnnecessary(_)
WithoutUnnecessary(pl) ==
    IF pl = << >> THEN << >>
    ELSE <<Necessary(Head(pl))>> \o WithoutUnnecessary(Tail(pl))

\* Lines 317-322.
FilterPackages(pl) == WithoutUnnecessary(WithoutProblematic(pl))

Csv(lines) == Labelled(PACKAGES_FILE_NAME, NoTag, lines)

PackagesResponses ==
    { Csv(<<W("a"), NL, W("b"), P(","), SP, W("fastapi")>>),
      Csv(<<W("pyglet"), P(","), W("a"), NL, W("b")>>),
      Csv(<<W("a"), NL, W("a"), P(","), W("fastapi"), NL, W("c")>>),
      Csv(<<W("pyglet")>>),
      Prose }

\* The position generate() is in when the loop over packages_list is at
\* index n: generating the approach's first file, or past the loop.
LoopAt(pl, n) == IF n < Len(pl) THEN "generate" ELSE "done"

\* get_possible_packages and lines 316-323.
GetPossiblePackagesWith(Responses) ==
    /\ pc = "packages"
    /\ \E first_raw \in Responses, second_raw \in Responses :
          LET packages_csv_string == GeneratedContent(first_raw, second_raw, PACKAGES_FILE_NAME)
              filtered == FilterPackages(Truncate(ParsePackages(packages_csv_string),
                                                  NUM_IMPLEMENTATION_STRATEGIES))
          IN  /\ packages_list' = filtered
              /\ pc' = LoopAt(filtered, 0)
              /\ conversation' = Conversation(first_raw, second_raw, PACKAGES_FILE_NAME,
                                              << >>, NoPath)
    /\ num_approach' = 0
    /\ gen_step' = 1
    /\ UNCHANGED <<microservice_specification, refine, microservice_name, i, error,
                   final_version_path, fs, log, printed, exc, last_repair>>

GetPossiblePackages == GetPossiblePackagesWith(PackagesResponses)

\* ------------------------------------------------------------ the loop of generate

\* A call of the builder or of the file system, or a raise, as the log
\* keeps it: the approach it happened in, the path and what came of it.
Event(op, n, path, info) == [op |-> op, num_approach |-> n, path |-> path, info |-> info]

\* Mutant: `except BaseException`, every exception is handled.
Caught_Any(exception) == TRUE

\* Line 330: the exceptions the loop of generate handles.
Caught(exception) == exception = "MaxDebugTimeReachedException"

\* Mutant: the give-up message without the test of line 332.
HandlerMessages_Always(n, pl) == <<"could_not_debug", "give_up">>

\* Lines 331-335: what the handler prints.
HandlerMessages(n, pl) ==
    <<"could_not_debug">> \o (IF n = Len(pl) - 1 THEN <<"give_up">> ELSE << >>)

\* Mutant: break in place of continue.
AfterHandler_Break(pl, n) == "done"

\* Line 336: continue, the loop goes on with the approach after n.
AfterHandler(pl, n) == LoopAt(pl, n + 1)

\* Mutant: no break after the success message.
AfterSuccess_Continue(pl, n) == LoopAt(pl, n + 1)

\* Line 343: break, the loop ends with approach n.
AfterSuccess(pl, n) == "done"

\* An exception raised inside the try block of lines 324-329: handled by
\* lines 330-336 or escaping generate.
Raise(exception) ==
    IF Caught(exception)
    THEN /\ printed' = printed \o HandlerMessages(num_approach, packages_list)
         /\ num_approach' = num_approach + 1
         /\ gen_step' = 1
         /\ pc' = AfterHandler(packages_list, num_approach)
         /\ exc' = exc
    ELSE /\ pc' = "raised"
         /\ exc' = exception
         /\ UNCHANGED <<printed, num_approach, gen_step>>

\* ------------------------------------------------------------ generate_microservice

\* Replies to a file request: the file in a labelled block, or in the only
\* fenced block of the reply.
GenResponses(file_name) ==
    { Labelled(file_name, PythonTag, <<W("a")>>),
      Prose \o Fenced(NoTag, <<W("a")>>) }

\* The exception os.makedirs(path) raises, or "none".
MakedirsError(dirs, path) == IF path \in DOMAIN dirs THEN "FileExistsError" ELSE "none"

\* os.makedirs(path) on the directories dirs.
Makedirs(dirs, path) ==
    [d \in DOMAIN dirs \cup {path} |-> IF d = path THEN EmptyDir ELSE dirs[d]]

\* The directories with file_name of directory path set to content.
WriteFile(dirs, path, file_name, content) ==
    [dirs EXCEPT ![path] = PersistFile(@, file_name, content)]

\* The folder of version 1 of the approach tried, line 112.
MicroserviceFolderV1 ==
    get_microservice_path(MICROSERVICE_PATH, microservice_name,
                          packages_list[num_approach + 1], num_approach, 1)

\* Lines 115-166: the files generate_microservice asks for, in the order
\* of its calls.
GeneratedFiles ==
    <<EXECUTOR_FILE_NAME, TEST_EXECUTOR_FILE_NAME, REQUIREMENTS_FILE_NAME, DOCKER_FILE_NAME>>

\* Mutant: the test module asked for before the source module.
GeneratedFile_TestFirst(step) ==
    IF step = 1 THEN TEST_EXECUTOR_FILE_NAME
    ELSE IF step = 2 THEN EXECUTOR_FILE_NAME
    ELSE GeneratedFiles[step]

\* The file the call number `step` of generate_microservice asks for.
GeneratedFile(step) == GeneratedFiles[step]

\* Lines 130, 143-146 and 157-161: the files given to files_to_string by
\* the call number `step`, all those generated before it.
ContextFiles(step) == {GeneratedFiles[j] : j \in 1..(step - 1)}

\* code_files_wrapped of the call number `step`; the first call has none.
\* The contents are those the earlier calls returned, which are those they
\* persisted into folder.
CodeFilesWrapped(step, folder_files) ==
    IF step = 1 THEN << >>
    ELSE files_to_string([f \in ContextFiles(step) |-> folder_files[f]], {})

\* generate_microservice, one generate_and_persist_file at a time: the
\* folder is made before the first file (line 113), config.yml is written
\* after the fourth (line 168) and debug_microservice starts with i = 1.
GenerateAndPersistFileWith(Responses) ==
    /\ pc = "generate"
    /\ LET folder == MicroserviceFolderV1
           file_name == GeneratedFile(gen_step)
           failed == IF gen_step = 1 THEN MakedirsError(fs, folder) ELSE "none"
           made == IF gen_step = 1 THEN Makedirs(fs, folder) ELSE fs
       IN  IF failed # "none"
           THEN /\ Raise(failed)
                /\ log' = Append(log, Event("raise", num_approach, folder, failed))
                /\ UNCHANGED <<i, fs, conversation>>
           ELSE /\ \E first_raw \in Responses[file_name],
                      second_raw \in Responses[file_name] :
                      LET call == Conversation(first_raw, second_raw, file_name,
                                               CodeFilesWrapped(gen_step, made[folder]), folder)
                          written == WriteFile(made, folder, file_name, call.content)
                      IN  /\ fs' = IF gen_step = Len(GeneratedFiles)
                                   THEN WriteFile(written, folder, CONFIG_FILE_NAME,
                                                  ConfigYml(microservice_name, EXECUTOR_FILE_NAME))
                                   ELSE written
                          /\ conversation' = call
                /\ log' = log \o (IF gen_step = 1
                                  THEN <<Event("makedirs", num_approach, folder, "generate_microservice")>>
                                  ELSE << >>)
                             \o <<Event("persist", num_approach, folder, "generate_microservice")>>
                /\ IF gen_step = Len(GeneratedFiles)
                   THEN /\ pc' = "debug"
                        /\ i' = 1
                        /\ gen_step' = gen_step
                   ELSE /\ gen_step' = gen_step + 1
                        /\ UNCHANGED <<pc, i>>
                /\ UNCHANGED <<exc, printed, num_approach>>
    /\ UNCHANGED <<microservice_specification, refine, microservice_name, packages_list,
                   error, final_version_path, last_repair>>

GenerateAndPersistFile ==
    GenerateAndPersistFileWith([file_name \in {GeneratedFiles[k] : k \in 1..Len(GeneratedFiles)} |-> GenResponses(file_name)])

\* ------------------------------------------------------------ debug_microservice

\* What process_error_message may return: empty for a build without error.
NoError == << >>
Errors ==
    { NoError,
      <<W("AttributeError"), P(":"), SP, W("x")>>,
      <<W("ModuleNotFoundError")>> }

\* get_microservice_path of the approach tried, lines 227, 228 and 246.
VersionPath(version) ==
    get_microservice_path(MICROSERVICE_PATH, microservice_name,
                          packages_list[num_approach + 1], num_approach, version)

\* Line 224: range(1, MAX_DEBUGGING_ITERATIONS).
InLoopRange(iteration) == 1 <= iteration /\ iteration < MAX_DEBUGGING_ITERATIONS

\* Mutant: the successor numbered two above.
NextVersion_Skip(iteration) == iteration + 2

\* Line 228: the version a repair of version `iteration` writes.
NextVersion(iteration) == iteration + 1

\* Mutant: the signal raised after the first repair.
IsLastIteration_First(iteration) == iteration = 1

\* Mutant: the signal raised after any repair.
IsLastIteration_Always(iteration) == TRUE

\* Line 234: the last iteration of the loop.
IsLastIteration(iteration) == iteration = MAX_DEBUGGING_ITERATIONS - 1

\* Mutant: the path of the version after the one pushed last.
ReturnedVersion_Next(iteration) == iteration + 1

\* Line 246: the version whose path is returned.
ReturnedVersion(iteration) == iteration

\* Lines 239-243: what a build without error comes to.
BuildOutcome(is_executor_in_hub) == IF is_executor_in_hub THEN "published" ELSE "unpublished"

\* Lines 224-231 and 236-246: iteration i pushes version i.  With an error
\* the repair follows; without one the loop ends with version i when the
\* executor is in the hub, and raises Exception when it is not.
PushExecutor ==
    /\ pc = "debug"
    /\ LET previous_microservice_path == VersionPath(i)
       IN  \E err \in Errors, is_executor_in_hub \in BOOLEAN :
              /\ error' = err
              /\ IF err # NoError
                 THEN /\ pc' = "repair"
                      /\ log' = Append(log, Event("push", num_approach,
                                                  previous_microservice_path, "error"))
                      /\ UNCHANGED <<final_version_path, exc, printed, num_approach, gen_step>>
                 ELSE IF BuildOutcome(is_executor_in_hub) = "published"
                 THEN /\ pc' = "playground"
                      /\ final_version_path' = VersionPath(ReturnedVersion(i))
                      /\ log' = Append(log, Event("push", num_approach,
                                                  previous_microservice_path, "published"))
                      /\ UNCHANGED <<exc, printed, num_approach, gen_step>>
                 ELSE /\ Raise("Exception")
                      /\ log' = log \o <<Event("push", num_approach,
                                               previous_microservice_path, "unpublished"),
                                         Event("raise", num_approach,
                                               previous_microservice_path, "Exception")>>
                      /\ UNCHANGED final_version_path
    /\ last_repair' = NoRepair
    /\ conversation' = NoConversation
    /\ UNCHANGED <<microservice_specification, refine, microservice_name, packages_list,
                   i, fs>>

\* ------------------------------------------------------------ is_dependency_issue

RuntimeErrorNames == {"AttributeError", "NameError", "AssertionError"}

\* `needle in text` for the spellings the model uses: a word holds a needle
\* when it is the needle or spelled around it.
SpellingHolds(c, needle) ==
    c = needle \/ <<c, needle>> \in {<<"CustomNameError", "NameError">>, <<"eyes", "yes">>}

Holds(text, needle) == \E k \in 1..Len(text) : IsWord(text[k]) /\ SpellingHolds(text[k][2], needle)

\* str.lower() of a spelling.
LowerSpelling(c) == IF c \in {"Yes", "YES"} THEN "yes" ELSE c

Lower(text) ==
    [k \in 1..Len(text) |-> IF IsWord(text[k]) THEN W(LowerSpelling(text[k][2])) ELSE text[k]]

Answers == {<<W("Yes"), P(".")>>, <<W("no")>>}

\* Mutant: the model asked whatever the error holds.
ClassifierAnswers_Always(err, answer) == <<answer>>

\* Lines 282-287: the replies is_dependency_issue gets from the model: none
\* when a runtime exception name is in the error, else the one answer.
ClassifierAnswers(err, answer) ==
    IF \E error_message \in RuntimeErrorNames : Holds(err, error_message)
    THEN << >>
    ELSE <<answer>>

\* Lines 282-288: answer is the model's reply, asked for only when no
\* runtime exception name is in the error.
is_dependency_issue(err, answer) ==
    LET answers == ClassifierAnswers(err, answer)
    IN  IF answers = << >> THEN FALSE ELSE Holds(Lower(answers[1]), "yes")

\* ------------------------------------------------------------ do_debug_iteration

RepairResponses ==
    { Labelled(REQUIREMENTS_FILE_NAME, NoTag, <<W("b")>>)
          \o Labelled(EXECUTOR_FILE_NAME, PythonTag, <<W("b")>>),
      Labelled(DOCKER_FILE_NAME, NoTag, << >>) \o Fenced(NoTag, <<W("b")>>),
      Prose }

\* Line 271: the files a dependency repair may update.
DependencyFiles == {REQUIREMENTS_FILE_NAME, DOCKER_FILE_NAME}

\* Mutant: the restriction to the dependency files dropped.
Updates_Unrestricted(updated_file, dependency_issue, file_name) == updated_file # << >>

\* Mutant: the restriction applied to every repair.
Updates_DependencyOnly(updated_file, dependency_issue, file_name) ==
    updated_file # << >> /\ file_name \in DependencyFiles

\* Line 271: whether the extracted text replaces the file.
Updates(updated_file, dependency_issue, file_name) ==
    updated_file # << >> /\ (~dependency_issue \/ file_name \in DependencyFiles)

\* Lines 269-273: the loop over FILE_AND_TAG_PAIRS from index k on.
RECURSIVE ApplyUpdates(_, _, _, _)
ApplyUpdates(file_name_to_content, returned_files_raw, dependency_issue, k) ==
    IF k > Len(FILE_AND_TAG_PAIRS) THEN file_name_to_content
    ELSE LET file_name == FILE_AND_TAG_PAIRS[k]
             updated_file == extract_content_from_result(returned_files_raw, file_name, FALSE)
         IN  ApplyUpdates(IF Updates(updated_file, dependency_issue, file_name)
                          THEN PersistFile(file_name_to_content, file_name, updated_file)
                          ELSE file_name_to_content,
                          returned_files_raw, dependency_issue, k + 1)

\* Lines 269-275: the files written.
NextVersionFiles(file_name_to_content, returned_files_raw, dependency_issue) ==
    ApplyUpdates(file_name_to_content, returned_files_raw, dependency_issue, 1)

\* Mutant: the repaired files overwrite the version they were read from.
PersistTarget_InPlace(previous_microservice_path, next_microservice_path) ==
    previous_microservice_path

\* Line 275: the folder the files are persisted into.
PersistTarget(previous_microservice_path, next_microservice_path) == next_microservice_path

\* The files of directory path after each file of files is persisted there.
PersistAll(dirs, path, files) ==
    [dirs EXCEPT ![path] = [f \in DOMAIN @ \cup DOMAIN files |->
                               IF f \in DOMAIN files THEN files[f] ELSE @[f]]]

\* Line 233 with lines 234-235: version i + 1 is written from version i;
\* after the last iteration MaxDebugTimeReachedException is raised.  Past
\* the range of line 224 the loop would end and line 246 return.
DoDebugIterationWith(Responses, Replies) ==
    /\ pc = "repair"
    /\ LET previous_microservice_path == VersionPath(i)
           next_microservice_path == VersionPath(NextVersion(i))
           failed == MakedirsError(fs, next_microservice_path)
           made == Makedirs(fs, next_microservice_path)
           call == Event("call", num_approach, next_microservice_path, "do_debug_iteration")
           makedirs == Event("makedirs", num_approach, next_microservice_path, "do_debug_iteration")
           read == Event("read", num_approach, previous_microservice_path, "do_debug_iteration")
       IN  IF failed # "none"
           THEN /\ Raise(failed)
                /\ log' = log \o <<call, Event("raise", num_approach, next_microservice_path, failed)>>
                /\ UNCHANGED <<fs, last_repair, i, final_version_path>>
           ELSE IF previous_microservice_path \notin DOMAIN fs
           THEN /\ Raise("FileNotFoundError")
                /\ fs' = made
                /\ log' = log \o <<call, makedirs, Event("raise", num_approach,
                                                   previous_microservice_path, "FileNotFoundError")>>
                /\ UNCHANGED <<last_repair, i, final_version_path>>
           ELSE IF DOCKER_FILE_NAME \notin DOMAIN fs[previous_microservice_path]
           THEN /\ Raise("KeyError")
                /\ fs' = made
                /\ log' = log \o <<call, makedirs, read,
                                   Event("raise", num_approach, previous_microservice_path, "KeyError")>>
                /\ UNCHANGED <<last_repair, i, final_version_path>>
           ELSE /\ \E answer \in Replies, returned_files_raw \in Responses :
                      LET dependency_issue == is_dependency_issue(error, answer)
                          file_name_to_content == fs[previous_microservice_path]
                          target == PersistTarget(previous_microservice_path, next_microservice_path)
                      IN  /\ fs' = PersistAll(made, target,
                                       NextVersionFiles(file_name_to_content,
                                                        returned_files_raw, dependency_issue))
                          /\ last_repair' =
                                 [done |-> TRUE,
                                  is_dependency_issue |-> dependency_issue,
                                  error |-> error,
                                  answers |-> ClassifierAnswers(error, answer),
                                  returned_files_raw |-> returned_files_raw,
                                  files |-> file_name_to_content,
                                  previous |-> previous_microservice_path,
                                  next |-> next_microservice_path]
                          /\ LET persist == Event("persist", num_approach, target, "do_debug_iteration")
                             IN  IF IsLastIteration(i)
                                 THEN /\ Raise("MaxDebugTimeReachedException")
                                      /\ log' = log \o <<call, makedirs, read, persist,
                                                 Event("raise", num_approach, next_microservice_path,
                                                       "MaxDebugTimeReachedException")>>
                                      /\ UNCHANGED <<i, final_version_path>>
                                 ELSE IF InLoopRange(i + 1)
                                 THEN /\ i' = i + 1
                                      /\ pc' = "debug"
                                      /\ log' = log \o <<call, makedirs, read, persist>>
                                      /\ UNCHANGED <<printed, num_approach, gen_step, exc,
                                                     final_version_path>>
                                 ELSE /\ final_version_path' = VersionPath(ReturnedVersion(i))
                                      /\ pc' = "playground"
                                      /\ log' = log \o <<call, makedirs, read, persist>>
                                      /\ UNCHANGED <<printed, num_approach, gen_step, exc, i>>
    /\ UNCHANGED <<microservice_specification, refine, microservice_name, packages_list,
                   error, conversation>>

DoDebugIteration == DoDebugIterationWith(RepairResponses, Answers)

\* ------------------------------------------------------------ generate_playground

PlaygroundResponses == {Labelled(APP_FILE_NAME, PythonTag, <<W("ui")>>), Prose}

\* Line 202.
GatewayName(name) == <<W("Gateway")>> \o name

\* Lines 204-211: custom_gateway.py with the class renamed.
CustomGateway(gateway_name) ==
    <<W("class"), SP>> \o gateway_name \o <<P("("), W("CompositeGateway"), P(")"), P(":")>>

\* Lines 197-214: the gateway folder.
GatewayFiles(name, playground_content) ==
    PersistFile(PersistFile(PersistFile(EmptyDir,
        APP_FILE_NAME, playground_content),
        CUSTOM_GATEWAY_FILE_NAME, CustomGateway(GatewayName(name))),
        CONFIG_FILE_NAME, ConfigYml(GatewayName(name), CUSTOM_GATEWAY_FILE_NAME))

\* Mutant: the gateway is taken as published without the test of line 219.
GatewayPublished_Unchecked(is_executor_in_hub) == TRUE

\* Line 219: the gateway, once pushed, is looked up in the hub.
GatewayPublished(is_executor_in_hub) == is_executor_in_hub

\* generate_playground (line 329) and, when it returns, the success
\* message and the break (lines 337-343).  The app.py request is the second
\* of the conversation; it is repeated once when the extraction is empty.
GeneratePlayground ==
    /\ pc = "playground"
    /\ LET gateway_path == GatewayPath(final_version_path)
           failed == MakedirsError(fs, gateway_path)
           read == Event("read", num_approach, final_version_path, "generate_playground")
       IN  IF failed # "none"
           THEN /\ Raise(failed)
                /\ log' = log \o <<read, Event("raise", num_approach, gateway_path, failed)>>
                /\ UNCHANGED fs
           ELSE /\ \E first_raw \in PlaygroundResponses, second_raw \in PlaygroundResponses :
                      fs' = [d \in DOMAIN fs \cup {gateway_path} |->
                                IF d = gateway_path
                                THEN GatewayFiles(microservice_name,
                                         GeneratedContent(first_raw, second_raw, APP_FILE_NAME))
                                ELSE fs[d]]
                /\ \E is_executor_in_hub \in BOOLEAN :
                      IF GatewayPublished(is_executor_in_hub)
                      THEN /\ printed' = Append(printed, "run_or_deploy")
                           /\ pc' = AfterSuccess(packages_list, num_approach)
                           /\ num_approach' = IF pc' = "generate" THEN num_approach + 1
                                              ELSE num_approach
                           /\ gen_step' = 1
                           /\ log' = log \o <<read,
                                  Event("persist", num_approach, gateway_path, "generate_playground"),
                                  Event("push", num_approach, gateway_path, BuildOutcome(is_executor_in_hub))>>
                           /\ UNCHANGED exc
                      ELSE /\ Raise("Exception")
                           /\ log' = log \o <<read,
                                  Event("persist", num_approach, gateway_path, "generate_playground"),
                                  Event("push", num_approach, gateway_path, BuildOutcome(is_executor_in_hub)),
                                  Event("raise", num_approach, gateway_path, "Exception")>>
    /\ UNCHANGED <<microservice_specification, refine, microservice_name, packages_list,
                   i, error, final_version_path, last_repair, conversation>>

\* ------------------------------------------------------------ specification

Next ==
    \/ RefineTaskStart
    \/ RefineTaskTurn
    \/ RefineTestTurn
    \/ GenerateMicroserviceName
    \/ GetPossiblePackages
    \/ GenerateAndPersistFile
    \/ PushExecutor
    \/ DoDebugIteration
    \/ GeneratePlayground

Spec == Init /\ [][Next]_vars

\* ------------------------------------------------------------ one repair, any response

\* do_debug_iteration on its own: the first repair of an approach, for
\* every version 1 and every response below.

\* A header the pattern of requirements.txt matches through its unescaped
\* dot.
NEAR_REQUIREMENTS_FILE_NAME == <<"requirements", "-", "txt">>

RichLabels ==
    { EXECUTOR_FILE_NAME, TEST_EXECUTOR_FILE_NAME, REQUIREMENTS_FILE_NAME, DOCKER_FILE_NAME,
      CONFIG_FILE_NAME, NEAR_REQUIREMENTS_FILE_NAME }

RichContents ==
    { <<W("b")>>, << >>, <<SP>>, <<W("b"), NL, FENCE, NL, W("c")>> }

RichBlocks ==
    {Labelled(n, tag, c) : n \in RichLabels, tag \in {NoTag, PythonTag}, c \in RichContents}
        \cup {Fenced(tag, c) : tag \in {NoTag, PythonTag}, c \in RichContents}

\* Replies of no, one or two blocks.
RichResponses ==
    {Prose} \cup {Prose \o b : b \in RichBlocks}
        \cup {b1 \o b2 : b1 \in RichBlocks, b2 \in RichBlocks}

RepairName == <<W("Svc"), W("7")>>
RepairPackages == <<<<W("a")>>>>
RepairFolderV1 == get_microservice_path(MICROSERVICE_PATH, RepairName, RepairPackages, 0, 1)

\* The files of a version 1: any two of them may have come out empty.
RepairVersions ==
    { [f \in Range(FILE_AND_TAG_PAIRS) \cup {CONFIG_FILE_NAME} |->
          IF f = CONFIG_FILE_NAME THEN ConfigYml(RepairName, EXECUTOR_FILE_NAME)
          ELSE IF f = EXECUTOR_FILE_NAME THEN executor
          ELSE IF f = REQUIREMENTS_FILE_NAME THEN requirements
          ELSE <<W("a")>>] :
      executor \in {<<W("a")>>, << >>}, requirements \in {<<W("a")>>, << >>} }

\* generate() after the first push of the first approach gave one of the
\* errors of Failures.
InitRepairWith(Failures) ==
    /\ pc = "repair"
    /\ microservice_specification = [task |-> <<W("task")>>, test |-> <<W("test")>>]
    /\ refine = NoRefine
    /\ microservice_name = RepairName
    /\ packages_list = <<RepairPackages>>
    /\ num_approach = 0
    /\ gen_step = Len(GeneratedFiles)
    /\ i = 1
    /\ error \in Failures
    /\ final_version_path = NoPath
    /\ \E files \in RepairVersions : fs = [d \in {RepairFolderV1} |-> files]
    /\ log = <<Event("makedirs", 0, RepairFolderV1, "generate_microservice"),
               Event("persist", 0, RepairFolderV1, "generate_microservice"),
               Event("persist", 0, RepairFolderV1, "generate_microservice"),
               Event("persist", 0, RepairFolderV1, "generate_microservice"),
               Event("persist", 0, RepairFolderV1, "generate_microservice"),
               Event("push", 0, RepairFolderV1, "error")>>
    /\ printed = <<"handover">>
    /\ exc = "none"
    /\ last_repair = NoRepair
    /\ conversation = NoConversation

InitRepair == InitRepairWith(Errors \ {NoError})

NextRepair == DoDebugIterationWith(RichResponses, Answers)

SpecRepair == InitRepair /\ [][NextRepair]_vars

\* ------------------------------------------------------------ one approach generated, any reply

\* generate_microservice on its own: the four files of the first approach,
\* for every pair of replies below.

\* Replies to the request for file_name: no block; the file under its
\* header, with content and without; one fenced block without a header,
\* with content and without; two fenced blocks; a block under the header
\* of another file; a fenced block followed by the file under its header.
RichGenResponses(file_name) ==
    { Prose,
      Labelled(file_name, PythonTag, <<W("b")>>),
      Labelled(file_name, NoTag, << >>),
      Prose \o Fenced(NoTag, <<W("b")>>),
      Prose \o Fenced(PythonTag, << >>),
      Fenced(NoTag, <<W("b")>>) \o Fenced(NoTag, <<W("b")>>),
      Labelled(CONFIG_FILE_NAME, NoTag, <<W("c")>>),
      Fenced(NoTag, <<W("b")>>) \o Labelled(file_name, NoTag, <<W("d")>>) }

\* generate() at line 326 of the first approach; get_possible_packages
\* got its list from the first reply.
InitGenerate ==
    /\ pc = "generate"
    /\ microservice_specification = [task |-> <<W("task")>>, test |-> <<W("test")>>]
    /\ refine = NoRefine
    /\ microservice_name = RepairName
    /\ packages_list = <<RepairPackages>>
    /\ num_approach = 0
    /\ gen_step = 1
    /\ i = 0
    /\ error = << >>
    /\ final_version_path = NoPath
    /\ fs = [d \in {} |-> EmptyDir]
    /\ log = << >>
    /\ printed = <<"handover">>
    /\ exc = "none"
    /\ last_repair = NoRepair
    /\ conversation = Conversation(Csv(<<W("a")>>), Csv(<<W("a")>>), PACKAGES_FILE_NAME,
                                   << >>, NoPath)

NextGenerate ==
    GenerateAndPersistFileWith([file_name \in {GeneratedFiles[k] : k \in 1..Len(GeneratedFiles)} |-> RichGenResponses(file_name)])

SpecGenerate == InitGenerate /\ [][NextGenerate]_vars

\* ------------------------------------------------------------ the package sets, any list

\* get_possible_packages and the filters of generate on their own, for
\* every list below.

PackageNames == {<<W("a")>>, <<W("b")>>, <<W("pyglet")>>, <<W("fastapi")>>}

\* Lines of one package and of two.
PackageLines ==
    PackageNames \cup {x \o <<P(","), SP>> \o y : x \in PackageNames, y \in PackageNames}

\* packages.csv of one line, of two, and of three with the third beyond
\* NUM_IMPLEMENTATION_STRATEGIES; and a reply without the file.
RichPackagesResponses ==
    {Csv(l) : l \in PackageLines}
        \cup {Csv(l1 \o <<NL>> \o l2) : l1 \in PackageLines, l2 \in PackageLines}
        \cup {Csv(l \o <<NL>> \o l \o <<NL, W("c")>>) : l \in PackageNames}
        \cup {Prose}

\* generate() at line 315, before get_possible_packages.
InitPackages ==
    /\ pc = "packages"
    /\ microservice_specification = [task |-> <<W("task")>>, test |-> <<W("test")>>]
    /\ refine = NoRefine
    /\ microservice_name = RepairName
    /\ packages_list = << >>
    /\ num_approach = 0
    /\ gen_step = 0
    /\ i = 0
    /\ error = << >>
    /\ final_version_path = NoPath
    /\ fs = [d \in {} |-> EmptyDir]
    /\ log = << >>
    /\ printed = <<"handover">>
    /\ exc = "none"
    /\ last_repair = NoRepair
    /\ conversation = NoConversation

NextPackages == GetPossiblePackagesWith(RichPackagesResponses)

SpecPackages == InitPackages /\ [][NextPackages]_vars

\* ------------------------------------------------------------ one repair, any error

\* The classification of do_debug_iteration on its own, for every error
\* and every answer below.

\* Errors with a runtime exception name, one of them inside a longer name,
\* and errors without: one is a runtime exception name in lower case.
RichErrors ==
    { <<W("AttributeError"), P(":"), SP, W("x")>>,
      <<W("x"), SP, W("NameError")>>,
      <<W("AssertionError")>>,
      <<W("CustomNameError")>>,
      <<W("ModuleNotFoundError")>>,
      <<W("nameerror")>>,
      <<W("ImportError"), P(":"), SP, W("yes")>>,
      <<W("Error")>> }

\* Answers with yes in some case or inside a word, and answers without.
RichAnswers ==
    { <<W("Yes"), P(".")>>, <<W("YES")>>, <<W("no"), P(","), SP, W("yes")>>, <<W("eyes")>>,
      <<W("no")>>, <<W("y")>>, << >> }

InitClassify == InitRepairWith(RichErrors)

NextClassify == DoDebugIterationWith(RepairResponses, RichAnswers)

SpecClassify == InitClassify /\ [][NextClassify]_vars

\* ------------------------------------------------------------ the extraction, any text

\* extract_content_from_result on its own, for every text, file name and
\* flag below; `conversation` holds the arguments and then the result.

\* A line with a fence inside it.
InlineFence == <<W("b"), SP, FENCE, SP, W("c")>>

ExtractContents == {<<W("b")>>, << >>, InlineFence}

ExtractBlocks ==
    {Labelled(n, tag, c) : n \in {REQUIREMENTS_FILE_NAME, NEAR_REQUIREMENTS_FILE_NAME,
                                  CONFIG_FILE_NAME},
                           tag \in {NoTag, PythonTag}, c \in ExtractContents}
        \cup {Fenced(tag, c) : tag \in {NoTag, PythonTag}, c \in ExtractContents}

\* Texts of no, one or two blocks, and one with a fence that is not closed.
ExtractTexts ==
    {Prose, Prose \o <<FENCE, NL, W("b"), NL>>}
        \cup {Prose \o b : b \in ExtractBlocks}
        \cup {b1 \o b2 : b1 \in ExtractBlocks, b2 \in ExtractBlocks}

InitExtract ==
    /\ pc = "extract"
    /\ microservice_specification = [task |-> <<W("task")>>, test |-> <<W("test")>>]
    /\ refine = NoRefine
    /\ microservice_name = << >>
    /\ packages_list = << >>
    /\ num_approach = 0
    /\ gen_step = 0
    /\ i = 0
    /\ error = << >>
    /\ final_version_path = NoPath
    /\ fs = [d \in {} |-> EmptyDir]
    /\ log = << >>
    /\ printed = << >>
    /\ exc = "none"
    /\ last_repair = NoRepair
    /\ \E plain_text \in ExtractTexts,
          file_name \in {REQUIREMENTS_FILE_NAME, DOCKER_FILE_NAME},
          match_single_block \in BOOLEAN :
          conversation = [done |-> FALSE, plain_text |-> plain_text, file_name |-> file_name,
                          match_single_block |-> match_single_block, content |-> << >>]

\* One call of extract_content_from_result.
ExtractContentFromResult ==
    /\ pc = "extract"
    /\ pc' = "extracted"
    /\ conversation' =
           [conversation EXCEPT
               !.done = TRUE,
               !.content = extract_content_from_result(conversation.plain_text,
                                                       conversation.file_name,
                                                       conversation.match_single_block)]
    /\ UNCHANGED <<microservice_specification, refine, microservice_name, packages_list,
                   num_approach, gen_step, i, error, final_version_path, fs, log, printed,
                   exc, last_repair>>

SpecExtract == InitExtract /\ [][ExtractContentFromResult]_vars

\* ------------------------------------------------------------ properties

IsVersionDir(path) == path.sub = ""

\* The pushes of candidate versions, the calls of do_debug_iteration and
\* the raises of MaxDebugTimeReachedException in approach n, in order.
PushesOf(n) ==
    SelectSeq(log, LAMBDA e : e.op = "push" /\ e.num_approach = n /\ IsVersionDir(e.path))
CallsOf(n) == SelectSeq(log, LAMBDA e : e.op = "call" /\ e.num_approach = n)
Exhausted(n) ==
    \E k \in 1..Len(log) : /\ log[k].op = "raise"
                           /\ log[k].info = "MaxDebugTimeReachedException"
                           /\ log[k].num_approach = n

\* The versions of approach n that have a directory.
VersionsOf(n) == {d.version : d \in {e \in DOMAIN fs : IsVersionDir(e) /\ e.num_approach = n}}

Approaches == 0..(Len(packages_list) - 1)

Count(s, x) == Cardinality({k \in 1..Len(s) : s[k] = x})

\* The index of the last push before position k of the log, or 0.
LastPushBefore(k) ==
    IF \E q \in 1..(k - 1) : log[q].op = "push"
    THEN CHOOSE q \in 1..(k - 1) :
            log[q].op = "push" /\ \A r \in (q + 1)..(k - 1) : log[r].op # "push"
    ELSE 0

\* C1: per approach at most MAX_DEBUGGING_ITERATIONS - 1 calls of
\* do_debug_iteration are made; the versions pushed are 1, 2, 3, ... in
\* this order, the versions written are 1, 2, 3, ... without a gap, and each
\* repair writes the version numbered one above the version pushed just
\* before it, in the same approach.
C1_RepairsBoundedVersionsConsecutive ==
    /\ \A n \in Approaches :
          /\ Len(CallsOf(n)) <= MAX_DEBUGGING_ITERATIONS - 1
          /\ \A k \in 1..Len(PushesOf(n)) : PushesOf(n)[k].path.version = k
          /\ \A k \in 1..Len(CallsOf(n)) : CallsOf(n)[k].path.version = k + 1
          /\ \E top \in 0..MAX_DEBUGGING_ITERATIONS : VersionsOf(n) = 1..top
    /\ \A k \in 1..Len(log) :
          (log[k].op = "persist" /\ log[k].info = "do_debug_iteration") =>
              /\ LastPushBefore(k) # 0
              /\ log[LastPushBefore(k)].num_approach = log[k].num_approach
              /\ log[k].path =
                    [log[LastPushBefore(k)].path EXCEPT !.version = @ + 1]

\* C1 witness: an approach that used all its repairs, versions
\* 1..MAX_DEBUGGING_ITERATIONS written.
C1_Witness ==
    /\ packages_list # << >>
    /\ Len(CallsOf(0)) = MAX_DEBUGGING_ITERATIONS - 1
    /\ VersionsOf(0) = 1..MAX_DEBUGGING_ITERATIONS

\* C2: once debug_microservice has returned, the path returned is that of
\* the version v pushed last, whose push gave no error and which was found
\* published; versions 1..v-1 were pushed in order, each with an error, and no
\* version above v has a directory.
C2_ReturnsFirstSuccessfulVersion ==
    final_version_path # NoPath =>
        LET n == final_version_path.num_approach
            v == final_version_path.version
        IN  /\ final_version_path =
                   get_microservice_path(MICROSERVICE_PATH, microservice_name,
                                         packages_list[n + 1], n, v)
            /\ final_version_path \in DOMAIN fs
            /\ Len(PushesOf(n)) = v
            /\ \A k \in 1..v :
                  /\ PushesOf(n)[k].path.version = k
                  /\ PushesOf(n)[k].info = (IF k < v THEN "error" ELSE "published")
            /\ PushesOf(n)[v].path = final_version_path
            /\ \A u \in VersionsOf(n) : u <= v

\* C2 witness: a version returned after at least one repair.
C2_Witness == final_version_path # NoPath /\ final_version_path.version >= 2

\* C3: a push of a candidate version that gave no error while the executor
\* is not in the hub is the last push or file operation of the run: the
\* Exception raised right after it escapes generate, no successor version
\* is made and no later approach is started.
C3_UnpublishedIsFatal ==
    \A k \in 1..Len(log) :
        (log[k].op = "push" /\ IsVersionDir(log[k].path) /\ log[k].info = "unpublished") =>
            /\ Len(log) = k + 1
            /\ log[k + 1].op = "raise"
            /\ log[k + 1].info = "Exception"
            /\ pc = "raised"
            /\ exc = "Exception"
            /\ num_approach = log[k].num_approach
            /\ [log[k].path EXCEPT !.version = @ + 1] \notin DOMAIN fs
            /\ Count(printed, "could_not_debug") = log[k].num_approach

\* C3 witness: the run aborted on an unpublished build while a later
\* approach was still untried.
C3_Witness ==
    /\ pc = "raised"
    /\ log # << >>
    /\ log[Len(log)].info = "Exception"
    /\ IsVersionDir(log[Len(log)].path)
    /\ num_approach + 1 < Len(packages_list)

\* C4: every operation made while approach n is tried is on a directory
\* keyed by n and n's own package set, and approaches are tried in list
\* order; right after approach n is exhausted with an approach left, no
\* directory of approach n + 1 exists, and the next thing done is making the
\* version-1 folder of approach n + 1.
C4_NextApproachStartsFresh ==
    /\ \A k \in 1..Len(log) :
          /\ log[k].num_approach \in Approaches
          /\ log[k].path.num_approach = log[k].num_approach
          /\ log[k].path.packages = packages_list[log[k].num_approach + 1]
          /\ k > 1 => log[k - 1].num_approach <= log[k].num_approach
    /\ \A k \in 1..Len(log) :
          (/\ log[k].op = "raise"
           /\ log[k].info = "MaxDebugTimeReachedException"
           /\ log[k].num_approach + 1 < Len(packages_list)) =>
              LET b == log[k].num_approach + 1
                  folder == get_microservice_path(MICROSERVICE_PATH, microservice_name,
                                                  packages_list[b + 1], b, 1)
              IN  IF k = Len(log)
                  THEN /\ pc = "generate"
                       /\ num_approach = b
                       /\ gen_step = 1
                       /\ VersionsOf(b) = {}
                  ELSE log[k + 1] = Event("makedirs", b, folder, "generate_microservice")

\* C4 witness: approach 0 exhausted and a version of approach 1 pushed,
\* both approaches with the same package set.
C4_Witness ==
    /\ Exhausted(0)
    /\ Len(PushesOf(1)) >= 1
    /\ packages_list[1] = packages_list[2]

\* C5: when there is at least one approach and every approach raised
\* MaxDebugTimeReachedException, generate has returned without an exception,
\* the give-up message was printed exactly once, as the last message, and
\* the run-or-deploy message was not printed.
C5_AllExhaustedIsSoftFailure ==
    (packages_list # << >> /\ \A n \in Approaches : Exhausted(n)) =>
        /\ pc = "done"
        /\ exc = "none"
        /\ Count(printed, "give_up") = 1
        /\ printed[Len(printed)] = "give_up"
        /\ Count(printed, "could_not_debug") = Len(packages_list)
        /\ Count(printed, "run_or_deploy") = 0

\* C5 witness: two approaches, both exhausted.
C5_Witness == Len(packages_list) = 2 /\ Exhausted(0) /\ Exhausted(1) /\ pc = "done"

\* C6: a gateway push found published is the last operation of the run:
\* the success message is printed once, as the last message, generate has
\* returned, and nothing is generated, pushed or repaired afterwards.
C6_StopsOnFirstSuccess ==
    \A k \in 1..Len(log) :
        (log[k].op = "push" /\ ~IsVersionDir(log[k].path) /\ log[k].info = "published") =>
            /\ Len(log) = k
            /\ pc = "done"
            /\ exc = "none"
            /\ num_approach = log[k].num_approach
            /\ Count(printed, "run_or_deploy") = 1
            /\ printed[Len(printed)] = "run_or_deploy"

\* C6 witness: success with the first of two approaches.
C6_Witness ==
    /\ pc = "done"
    /\ Count(printed, "run_or_deploy") = 1
    /\ num_approach = 0
    /\ Len(packages_list) = 2

\* A version whose files are all written: config.yml is the last file of
\* version 1, and a repair writes a version at once.
Written(d) == d \in DOMAIN fs /\ IsVersionDir(d) /\ CONFIG_FILE_NAME \in DOMAIN fs[d]

\* C9: no step changes the files of a version already written.
C9_WrittenVersionsImmutable ==
    [][\A d \in DOMAIN fs : Written(d) => (d \in DOMAIN fs' /\ fs'[d] = fs[d])]_vars

\* C9 witness: a repair wrote a successor that differs from its
\* predecessor, and the predecessor still holds the files that were read.
C9_Witness ==
    /\ last_repair.done
    /\ Written(last_repair.next)
    /\ fs[last_repair.next] # fs[last_repair.previous]
    /\ fs[last_repair.previous] = last_repair.files

\* The non-empty final texts the refiner can extract for a field.
FinalTexts(file_name) ==
    {extract_content_from_result(r, file_name, FALSE) : r \in RefineResponses} \ {<< >>}

\* C10: past refine_task the task is a non-empty final text, and past
\* refine_test (at every generation step) the test is one as well, whatever
\* the Generator was constructed with.
C10_SpecificationFinalizedBeforeGeneration ==
    /\ pc \notin {"refine_task_start", "refine_task"} =>
          /\ Truthy(microservice_specification.task)
          /\ microservice_specification.task \in FinalTexts(TASK_FINAL_FILE_NAME)
    /\ pc \notin {"refine_task_start", "refine_task", "refine_test"} =>
          /\ Truthy(microservice_specification.test)
          /\ microservice_specification.test \in FinalTexts(TEST_FINAL_FILE_NAME)

\* C10 witness: the name was generated from a finalized specification.
C10_Witness ==
    /\ pc = "packages"
    /\ microservice_specification = [task |-> <<W("task")>>, test |-> <<W("test")>>]

\* The file kinds a repair looks for in the response.
RecognizedFiles == Range(FILE_AND_TAG_PAIRS)

\* The predecessor and the successor of the last repair, as they are on
\* disk after it.
Predecessor == fs[last_repair.previous]
Successor == fs[last_repair.next]

\* What the last repair extracted for file_name.
Extracted(file_name) ==
    extract_content_from_result(last_repair.returned_files_raw, file_name, FALSE)

\* C7: after a repair classified as a dependency issue the successor has
\* the files of the predecessor, and every file other than requirements.txt
\* and Dockerfile has the predecessor's content, whatever the response held.
C7_DependencyRepairFrame ==
    (last_repair.done /\ last_repair.is_dependency_issue) =>
        /\ DOMAIN Successor = DOMAIN Predecessor
        /\ \A f \in DOMAIN Predecessor \ {REQUIREMENTS_FILE_NAME, DOCKER_FILE_NAME} :
              Successor[f] = Predecessor[f]

\* C7 witness: a dependency repair whose response held a new
\* microservice.py and a new requirements.txt; only the latter was taken.
C7_Witness ==
    /\ last_repair.done
    /\ last_repair.is_dependency_issue
    /\ Extracted(EXECUTOR_FILE_NAME) # << >>
    /\ Extracted(EXECUTOR_FILE_NAME) # Predecessor[EXECUTOR_FILE_NAME]
    /\ Successor[EXECUTOR_FILE_NAME] = Predecessor[EXECUTOR_FILE_NAME]
    /\ Extracted(REQUIREMENTS_FILE_NAME) # << >>
    /\ Successor[REQUIREMENTS_FILE_NAME] = Extracted(REQUIREMENTS_FILE_NAME)
    /\ Successor[REQUIREMENTS_FILE_NAME] # Predecessor[REQUIREMENTS_FILE_NAME]

\* The response holds a block labelled file_name: the header **file_name**
\* on a line of its own, the opening fence on the next.
RECURSIVE LabelPosition(_, _, _)
LabelPosition(t, file_name, k) ==
    IF k + 2 > Len(t) THEN 0
    ELSE IF AtLineStart(t, k) /\ t[k] = Hdr(file_name) /\ t[k + 1] = NL /\ t[k + 2] = FENCE
         THEN k
         ELSE LabelPosition(t, file_name, k + 1)

ReturnedLabelled(t, file_name) == LabelPosition(t, file_name, 1) # 0

\* The least position >= k of a newline, or 0; of a fence that starts a
\* line, or 0.
RECURSIVE NextNl(_, _)
NextNl(t, k) == IF k > Len(t) THEN 0 ELSE IF t[k] = NL THEN k ELSE NextNl(t, k + 1)

RECURSIVE NextFenceLine(_, _)
NextFenceLine(t, k) ==
    IF k > Len(t) THEN 0
    ELSE IF t[k] = FENCE /\ AtLineStart(t, k) THEN k
    ELSE NextFenceLine(t, k + 1)

\* The content returned for file_name, read as Markdown: the lines between
\* the opening fence line of its first labelled block and the next line
\* that starts with a fence, trimmed.
ReturnedContent(t, file_name) ==
    LET open == LabelPosition(t, file_name, 1) + 2
        first == NextNl(t, open) + 1
        close == NextFenceLine(t, first)
    IN  IF close = 0 THEN << >> ELSE Strip(SubSeq(t, first, close - 2))

ExtractedFromReply(k) ==
    extract_content_from_result(conversation.replies[k], conversation.file_name, TRUE)

\* The call kept in `conversation` persisted its content, when it was given
\* a folder.
ContentPersisted ==
    conversation.destination_folder # NoPath =>
        /\ conversation.destination_folder \in DOMAIN fs
        /\ conversation.file_name \in DOMAIN fs[conversation.destination_folder]
        /\ fs[conversation.destination_folder][conversation.file_name] = conversation.content

\* C11: a call of generate_and_persist_file sends one request when the
\* first extraction is non-empty and two when it is empty, the second being
\* the follow-up for the same file in the same conversation; the content
\* persisted and returned is that of the last extraction, empty or not, and
\* no exception is raised.
C11_AtMostOneFollowUp ==
    conversation.done =>
        /\ Len(conversation.messages) \in {1, 2}
        /\ Len(conversation.replies) = Len(conversation.messages)
        /\ conversation.messages[1].kind = "template"
        /\ conversation.messages[1].file_name = conversation.file_name
        /\ IF ExtractedFromReply(1) # << >>
           THEN /\ Len(conversation.messages) = 1
                /\ conversation.content = ExtractedFromReply(1)
           ELSE /\ Len(conversation.messages) = 2
                /\ conversation.messages[2] = FollowUpQuery(conversation.file_name)
                /\ conversation.content = ExtractedFromReply(2)
        /\ ContentPersisted
        /\ exc = "none"
        /\ pc # "raised"

\* C11 witness: a file whose two replies both gave nothing was persisted
\* empty after the one follow-up, and generation went on with the next file.
C11_Witness ==
    /\ conversation.done
    /\ conversation.file_name = EXECUTOR_FILE_NAME
    /\ Len(conversation.messages) = 2
    /\ ExtractedFromReply(1) = << >>
    /\ ExtractedFromReply(2) = << >>
    /\ fs[conversation.destination_folder][EXECUTOR_FILE_NAME] = << >>
    /\ pc = "generate"
    /\ gen_step = 2

\* The four artifacts in the order of the claim.
ArtifactOrder ==
    <<EXECUTOR_FILE_NAME, TEST_EXECUTOR_FILE_NAME, REQUIREMENTS_FILE_NAME, DOCKER_FILE_NAME>>

\* The number of the artifact the last call asked for.
ArtifactNumber == CHOOSE k \in 1..Len(ArtifactOrder) : ArtifactOrder[k] = conversation.file_name

\* text holds the header of file_name and, after it, content.
CarriesFile(text, file_name, content) ==
    \E k \in 1..Len(text) :
        /\ text[k] = Hdr(file_name)
        /\ \E j \in (k + 1)..(Len(text) + 1) : SubSeq(text, j, j + Len(content) - 1) = content

\* C12: when generate_microservice has asked for an artifact, the artifacts
\* before it in the order source, test, requirements, Dockerfile are
\* persisted and none after it is; its request carries the content of each
\* artifact before it; and the next call is for the artifact after it.
C12_ArtifactsInOrderWithContext ==
    (conversation.done /\ conversation.destination_folder # NoPath) =>
        LET folder == conversation.destination_folder
            k == ArtifactNumber
        IN  /\ conversation.file_name \in Range(ArtifactOrder)
            /\ DOMAIN fs[folder] \cap Range(ArtifactOrder) = {ArtifactOrder[j] : j \in 1..k}
            /\ \A j \in 1..(k - 1) :
                  CarriesFile(conversation.messages[1].code_files_wrapped,
                              ArtifactOrder[j], fs[folder][ArtifactOrder[j]])
            /\ IF k < Len(ArtifactOrder)
               THEN pc = "generate" /\ gen_step = k + 1
               ELSE pc = "debug"

\* C12 witness: the Dockerfile was asked for with the three artifacts
\* before it persisted, the source module among them non-empty.
C12_Witness ==
    /\ conversation.done
    /\ conversation.file_name = DOCKER_FILE_NAME
    /\ pc = "debug"
    /\ fs[conversation.destination_folder][EXECUTOR_FILE_NAME] = <<W("b")>>
    /\ fs[conversation.destination_folder][REQUIREMENTS_FILE_NAME] = << >>
    /\ CarriesFile(conversation.messages[1].code_files_wrapped, EXECUTOR_FILE_NAME, <<W("b")>>)

\* The list get_possible_packages returned, read from the packages.csv
\* the last call produced.
ReturnedPackagesList ==
    Truncate(ParsePackages(conversation.content), NUM_IMPLEMENTATION_STRATEGIES)

\* The positions of the package sets with no disallowed package, and of the
\* packages of a set that are not unnecessary.
AllowedSets(list) ==
    {k \in 1..Len(list) : \A j \in 1..Len(list[k]) : list[k][j] \notin PROBLEMATIC_PACKAGES}
NeededPackages(set) == {j \in 1..Len(set) : set[j] \notin UNNECESSARY_PACKAGES}

\* The place of position k among the positions S, counted from 1.
Rank(S, k) == Cardinality({j \in S : j <= k})

\* C13: the approaches are the package sets with no disallowed package, in
\* their order, nothing else dropped; each has its packages that are not
\* unnecessary, in their order, nothing else dropped.
C13_ApproachesAreFilteredSets ==
    (conversation.done /\ conversation.file_name = PACKAGES_FILE_NAME) =>
        LET list == ReturnedPackagesList
            sets == AllowedSets(list)
        IN  /\ Len(packages_list) = Cardinality(sets)
            /\ \A k \in sets :
                  LET approach == packages_list[Rank(sets, k)]
                      needed == NeededPackages(list[k])
                  IN  /\ Len(approach) = Cardinality(needed)
                      /\ \A j \in needed : approach[Rank(needed, j)] = list[k][j]
            /\ pc = IF sets = {} THEN "done" ELSE "generate"

\* C13 witness: of two package sets the first held a disallowed package and
\* the second an unnecessary one after a package that stays.
C13_Witness ==
    /\ conversation.done
    /\ conversation.file_name = PACKAGES_FILE_NAME
    /\ ReturnedPackagesList = << <<<<W("pyglet")>>, <<W("a")>>>>, <<<<W("b")>>, <<W("fastapi")>>>> >>
    /\ packages_list = << <<<<W("b")>>>> >>
    /\ pc = "generate"

\* The error holds one of the three runtime exception names, as written.
NamesRuntimeException(err) ==
    \E k \in 1..Len(err) :
        /\ IsWord(err[k])
        /\ err[k][2] \in {"AttributeError", "NameError", "AssertionError", "CustomNameError"}

\* The answer holds yes, in whatever case, on its own or inside a word.
Affirmative(answer) ==
    \E k \in 1..Len(answer) : IsWord(answer[k]) /\ answer[k][2] \in {"yes", "Yes", "YES", "eyes"}

\* C14: with a runtime exception name in the error the classifier asks the
\* model nothing and the repair is a code repair; without one it asks once,
\* and the repair is a dependency repair exactly when the answer holds yes.
C14_ClassifierFastPath ==
    last_repair.done =>
        IF NamesRuntimeException(last_repair.error)
        THEN last_repair.answers = << >> /\ ~last_repair.is_dependency_issue
        ELSE /\ Len(last_repair.answers) = 1
             /\ last_repair.is_dependency_issue <=> Affirmative(last_repair.answers[1])

\* C14 witness: an error whose text says yes but names no runtime exception
\* was put to the model, which answered no: a code repair.
C14_Witness ==
    /\ last_repair.done
    /\ last_repair.error = <<W("ImportError"), P(":"), SP, W("yes")>>
    /\ last_repair.answers = << <<W("no")>> >>
    /\ ~last_repair.is_dependency_issue

\* The file a refinement loop takes its final text from.
FinalFileOf(loop) == IF loop = "refine_task" THEN TASK_FINAL_FILE_NAME ELSE TEST_FINAL_FILE_NAME

\* The field of the Specification a refinement loop sets.
FieldOf(specification, loop) ==
    IF loop = "refine_task" THEN specification.task ELSE specification.test

\* What a refinement loop sends for the message m.
SentFor(loop, m) ==
    IF loop = "refine_task" THEN m
    ELSE <<Hdr(CLIENT_RESPONSE_FILE_NAME), NL, FENCE, NL>> \o m \o <<NL, FENCE, NL>>

\* A step of a refinement loop that leaves it in the loop sends the message
\* the human gave last; one whose response holds no block for the loop's
\* final file and none for prompt.txt puts the whole response to the human.
UnrecognizedResponseStep ==
    pc \in {"refine_task", "refine_test"} =>
        /\ (pc' = pc) => (refine'.sent = SentFor(pc, refine.msg))
        /\ (~ReturnedLabelled(refine'.response, FinalFileOf(pc))
                /\ ~ReturnedLabelled(refine'.response, PROMPT_FILE_NAME))
               => (/\ pc' = pc
                   /\ refine'.asked = refine'.response \o <<NL, P(":"), SP>>
                   /\ refine'.msg # << >>
                   /\ microservice_specification' = microservice_specification
                   /\ exc' = "none")

\* C15: an iteration of a refinement loop whose response holds no block for
\* the loop's final file and none for prompt.txt puts the whole response to
\* the human (followed by the prompt's colon), keeps the loop going with
\* the Specification as it was and nothing raised, and the human's reply,
\* never empty, is what the next iteration sends.
C15_UnrecognizedResponseIsAsked == [][UnrecognizedResponseStep]_vars

\* C15 witness: refine_test was answered with prose twice; the second time
\* it had sent the human's reply to the first.
C15_Witness ==
    /\ pc = "refine_test"
    /\ refine.turns = 2
    /\ refine.response = Prose
    /\ refine.asked = Prose \o <<NL, P(":"), SP>>
    /\ refine.sent = SentFor("refine_test", <<W("reply")>>)
    /\ refine.msg = <<W("reply")>>

\* The position in the log of the bounded-retry-exhausted signal of
\* approach n, or 0.
RaisePosition(n) ==
    IF Exhausted(n)
    THEN CHOOSE k \in 1..Len(log) : /\ log[k].op = "raise"
                                    /\ log[k].info = "MaxDebugTimeReachedException"
                                    /\ log[k].num_approach = n
    ELSE 0

\* The repairs of approach n begun before position k of the log.
RepairsBefore(n, k) ==
    Cardinality({j \in 1..(k - 1) : log[j].op = "call" /\ log[j].num_approach = n})

\* C16 as stated: the signal is raised for an approach only after
\* MAX_DEBUGGING_ITERATIONS repairs of that approach.
C16_Original ==
    \A n \in Approaches :
        Exhausted(n) => RepairsBefore(n, RaisePosition(n)) >= MAX_DEBUGGING_ITERATIONS

\* C16 amended: the signal is raised for an approach only after
\* MAX_DEBUGGING_ITERATIONS - 1 repairs of that approach.
C16_RaisedAfterAllRepairs ==
    \A n \in Approaches :
        Exhausted(n) => RepairsBefore(n, RaisePosition(n)) = MAX_DEBUGGING_ITERATIONS - 1

\* C16 witness: the signal was raised for the first approach, as the last
\* thing that happened in it.
C16_Witness ==
    /\ Exhausted(0)
    /\ RepairsBefore(0, RaisePosition(0)) = MAX_DEBUGGING_ITERATIONS - 1
    /\ \A k \in 1..Len(log) : log[k].num_approach = 0 => k <= RaisePosition(0)

\* The positions of the fences of t that start a line, in order.
RECURSIVE FenceLines(_, _)
FenceLines(t, k) ==
    IF k > Len(t) THEN << >>
    ELSE (IF t[k] = FENCE /\ AtLineStart(t, k) THEN <<k>> ELSE << >>) \o FenceLines(t, k + 1)

\* The fenced blocks of t read as Markdown: a line that starts with a fence
\* opens a block, the next such line closes it.
NumberOfFencedBlocks(t) == Len(FenceLines(t, 1)) \div 2

\* The trimmed content of the first fenced block of t: the lines between
\* its opening and its closing fence line.
FirstBlockContent(t) ==
    LET fences == FenceLines(t, 1)
    IN  Strip(SubSeq(t, NextNl(t, fences[1]) + 1, fences[2] - 2))

\* C17 as stated: without a block labelled file_name the result is, with
\* match_single_block, the trimmed content of the one fenced block of the
\* text and empty when the text has no fenced block or more than one, and
\* without match_single_block it is empty; with a block labelled file_name
\* the result is the content of that block.
C17_Original ==
    (pc = "extracted") =>
        LET t == conversation.plain_text
            f == conversation.file_name
        IN  IF ReturnedLabelled(t, f)
            THEN conversation.content = ReturnedContent(t, f)
            ELSE IF conversation.match_single_block /\ NumberOfFencedBlocks(t) = 1
            THEN conversation.content = FirstBlockContent(t)
            ELSE conversation.content = << >>

\* The response holds a block for the loop's final file with something in
\* it.
HoldsFinalText(response, loop) ==
    /\ ReturnedLabelled(response, FinalFileOf(loop))
    /\ ReturnedContent(response, FinalFileOf(loop)) # << >>

\* A step of a refinement loop leaves the loop exactly when its response
\* holds a final text; it then stores that text in the loop's field of the
\* Specification and asks the human nothing, and it otherwise leaves the
\* Specification as it was.
FinalizedStep ==
    pc \in {"refine_task", "refine_test"} =>
        /\ (pc' # pc) <=> HoldsFinalText(refine'.response, pc)
        /\ (pc' # pc) =>
               (/\ FieldOf(microservice_specification', pc)
                       = ReturnedContent(refine'.response, FinalFileOf(pc))
                /\ refine'.asked = << >>
                /\ refine'.turns = 0)
        /\ (pc' = pc) => (microservice_specification' = microservice_specification)

\* C18: a refinement loop is left only in an iteration whose response holds
\* a non-empty final block, the loop's field of the Specification is then
\* that block's content, and a question in the same response is not asked;
\* an iteration without a final text stays in the loop.
C18_LoopExitsOnlyOnFinalText == [][FinalizedStep]_vars

\* C18 witness: refine_task was left on a response that held a question and
\* the final task; the task was stored and the question not asked.
C18_Witness ==
    /\ pc = "refine_test"
    /\ ReturnedLabelled(refine.response, PROMPT_FILE_NAME)
    /\ ReturnedContent(refine.response, PROMPT_FILE_NAME) # << >>
    /\ HoldsFinalText(refine.response, "refine_task")
    /\ microservice_specification.task = ReturnedContent(refine.response, TASK_FINAL_FILE_NAME)
    /\ refine.asked = << >>

\* The pushes of approach n whose build gave an error.
FailedPushesOf(n) == SelectSeq(PushesOf(n), LAMBDA e : e.info = "error")

\* C19: when the signal has been raised for an approach, the approach has
\* had MAX_DEBUGGING_ITERATIONS - 1 pushes, all failed, and as many repairs,
\* its versions 1..MAX_DEBUGGING_ITERATIONS are written, the last of them
\* was never pushed, and nothing happened in the approach between the last
\* repair's files being persisted and the raise.
C19_LastVersionNeverBuilt ==
    \A n \in Approaches :
        Exhausted(n) =>
            /\ Len(PushesOf(n)) = MAX_DEBUGGING_ITERATIONS - 1
            /\ Len(FailedPushesOf(n)) = MAX_DEBUGGING_ITERATIONS - 1
            /\ Len(CallsOf(n)) = MAX_DEBUGGING_ITERATIONS - 1
            /\ VersionsOf(n) = 1..MAX_DEBUGGING_ITERATIONS
            /\ \A k \in 1..Len(log) :
                  (log[k].op = "push" /\ log[k].num_approach = n)
                      => log[k].path.version < MAX_DEBUGGING_ITERATIONS
            /\ LET r == RaisePosition(n)
               IN  /\ r > 1
                   /\ log[r - 1].op = "persist"
                   /\ log[r - 1].num_approach = n
                   /\ log[r - 1].path.version = MAX_DEBUGGING_ITERATIONS

\* C19 witness: the second approach ended with the signal, its last version
\* on disk and unbuilt, after the first had ended the same way.
C19_Witness ==
    /\ Len(packages_list) = 2
    /\ Exhausted(1)
    /\ MAX_DEBUGGING_ITERATIONS \in VersionsOf(1)
    /\ Len(PushesOf(1)) = MAX_DEBUGGING_ITERATIONS - 1
    /\ \A k \in 1..Len(log) : log[k].op = "push" => log[k].path.version < MAX_DEBUGGING_ITERATIONS

\* The push of a gateway folder at position k of the log.
IsGatewayPush(k) == log[k].op = "push" /\ ~IsVersionDir(log[k].path)

\* Before position k, approach n pushed the version at path and the build
\* was found published.
BuiltBefore(k, n, path) ==
    \E j \in 1..(k - 1) :
        /\ log[j].op = "push"
        /\ log[j].num_approach = n
        /\ log[j].path = path
        /\ log[j].info = "published"

\* C20: the run-or-deploy message is printed only when debug_microservice
\* has returned a version that built and the gateway made from it was pushed
\* and found published; a gateway found unpublished is followed by an
\* Exception that leaves generate, with no success message and no event of a
\* later approach, although the version of the microservice was published.
C20_SuccessNeedsPublishedGateway ==
    /\ Count(printed, "run_or_deploy") > 0 =>
          /\ final_version_path # NoPath
          /\ \E k \in 1..Len(log) :
                /\ IsGatewayPush(k)
                /\ log[k].info = "published"
                /\ log[k].path = GatewayPath(final_version_path)
                /\ BuiltBefore(k, log[k].num_approach, final_version_path)
    /\ \A k \in 1..Len(log) :
          (IsGatewayPush(k) /\ log[k].info # "published") =>
              /\ BuiltBefore(k, log[k].num_approach, final_version_path)
              /\ log[k].path = GatewayPath(final_version_path)
              /\ Len(log) = k + 1
              /\ log[k + 1] = Event("raise", log[k].num_approach, log[k].path, "Exception")
              /\ pc = "raised"
              /\ exc = "Exception"
              /\ ~Caught(exc)
              /\ num_approach = log[k].num_approach
              /\ Count(printed, "run_or_deploy") = 0

\* C20 witness: the first of two approaches built its microservice, the
\* gateway was pushed and not found in the hub, and generate ended with the
\* Exception, the second approach untried.
C20_Witness ==
    /\ Len(packages_list) = 2
    /\ num_approach = 0
    /\ pc = "raised"
    /\ exc = "Exception"
    /\ Len(log) > 1
    /\ IsGatewayPush(Len(log) - 1)
    /\ log[Len(log) - 1].info = "unpublished"
    /\ BuiltBefore(Len(log) - 1, 0, final_version_path)
    /\ Count(printed, "run_or_deploy") = 0

\* get_possible_packages has just returned (no later conversation yet).
PackagesJustReturned == conversation.done /\ conversation.file_name = PACKAGES_FILE_NAME

\* The model proposed nothing: packages.csv was extracted empty both times.
NoneProposed == PackagesJustReturned /\ conversation.content = << >>

\* Every proposed package set holds a disallowed package.
AllDisallowed == PackagesJustReturned /\ AllowedSets(ReturnedPackagesList) = {}

\* generate has returned normally without having generated, pushed,
\* repaired or reported anything about an approach.
NothingAttempted ==
    /\ pc = "done"
    /\ exc = "none"
    /\ log = << >>
    /\ DOMAIN fs = {}
    /\ Count(printed, "run_or_deploy") = 0
    /\ Count(printed, "give_up") = 0
    /\ Count(printed, "could_not_debug") = 0

\* C21, as stated: when every proposed set holds a disallowed package, or
\* none was proposed, no approach is left and generate returns normally
\* having generated, pushed and repaired nothing and reported neither
\* success nor giving up.
C21_Original ==
    (AllDisallowed \/ NoneProposed) => (packages_list = << >> /\ NothingAttempted)

\* C21, the part the code keeps: with no approach left after the filters,
\* generate returns normally, nothing attempted and nothing reported.
C21_NoApproachNothingAttempted ==
    /\ AllDisallowed => packages_list = << >>
    /\ (packages_list = << >> /\ pc \in {"generate", "debug", "repair", "playground", "done", "raised"})
           => NothingAttempted

\* C21 witness: nothing was proposed, and an approach whose one package is
\* the empty name was generated and pushed all the same.
C21_Witness ==
    /\ packages_list = << << << >> >> >>
    /\ \E k \in 1..Len(log) : log[k].op = "push" /\ log[k].num_approach = 0

\* The filters left no approach and generate returned at once.
C21_NoApproachReached == AllDisallowed /\ packages_list = << >> /\ NothingAttempted

\* The response holds no block labelled with a recognized file name.
NoRecognizedLabel(response) ==
    \A f \in RecognizedFiles : ~ReturnedLabelled(response, f)

\* Every header of the response that the pattern of a recognized file name
\* matches is that file name, character for character.
NoNearMissHeader(response) ==
    \A k \in 1..Len(response) :
        response[k][1] = "hdr" =>
            \A f \in RecognizedFiles : HeaderMatches(response[k], f) => response[k] = Hdr(f)

\* The last repair wrote the version after the one it read, with the files
\* it read, and the loop went on to the next iteration or ended with the
\* signal after its last.
UnchangedSuccessorConsumesIteration ==
    /\ Successor = Predecessor
    /\ Predecessor = last_repair.files
    /\ last_repair.next.version = last_repair.previous.version + 1
    /\ \/ i = last_repair.next.version /\ pc = "debug"
       \/ IsLastIteration(last_repair.previous.version) /\ i = last_repair.previous.version

\* C22, as stated: a repair whose response holds no block labelled with a
\* recognized file name (a single unlabelled fenced block included) writes
\* a successor whose files are all those of the predecessor, and the
\* repair still takes one of the bounded iterations.
C22_Original ==
    (last_repair.done /\ NoRecognizedLabel(last_repair.returned_files_raw)) =>
        UnchangedSuccessorConsumesIteration

\* C22, the part the code keeps: the same, for responses none of whose
\* headers is a near miss of a recognized file name.
C22_UnlabelledRepairCopies ==
    (/\ last_repair.done
     /\ NoRecognizedLabel(last_repair.returned_files_raw)
     /\ NoNearMissHeader(last_repair.returned_files_raw)) =>
        UnchangedSuccessorConsumesIteration

\* C22 witness: the response held no block labelled with a recognized file
\* name, and the successor's requirements.txt is not the predecessor's.
C22_Witness ==
    /\ last_repair.done
    /\ NoRecognizedLabel(last_repair.returned_files_raw)
    /\ Successor[REQUIREMENTS_FILE_NAME] # Predecessor[REQUIREMENTS_FILE_NAME]
    /\ \A f \in DOMAIN Predecessor \ {REQUIREMENTS_FILE_NAME} : Successor[f] = Predecessor[f]

\* A repair of a code issue whose response was one unlabelled fenced block
\* with content: the successor is the predecessor, and iteration 2 is next.
C22_SingleBlockReached ==
    /\ last_repair.done
    /\ ~last_repair.is_dependency_issue
    /\ last_repair.returned_files_raw = Prose \o Fenced(PythonTag, <<W("b")>>)
    /\ extract_content_from_result(last_repair.returned_files_raw, EXECUTOR_FILE_NAME, TRUE) = <<W("b")>>
    /\ Successor = Predecessor
    /\ i = 2

====
